---- MODULE Spec2Model ----
\* Model of the memory renderer (package mem): construction (New, NewEngine),
\* option application (RendererOptions.ApplyTo, With* options) and the render
\* operation (Renderer.Process, the variant with source selectors and
\* post-renderers).
\*
\* Go values are modelled with their sharing: an unstructured.Unstructured is
\* the pointer to its Object map (0 is a nil Object), `heap` holds the maps,
\* and `slices` holds the backing arrays of the []Unstructured slices. A Source
\* is a struct holding a slice header, so copying a Source shares the backing
\* array and the maps of its Objects.
EXTENDS Integers, Sequences, FiniteSets, TLC

\* ---------------------------------------------------------------- bounds
MaxGroups == 2      \* Source values handed to New
MaxObjs == 2        \* Objects per Source
MaxSrcPost == 1     \* post-renderers per Source
MaxOpts == 2        \* options handed to New
MaxCalls == 2       \* Process calls per run
MaxMutations == 1   \* mutations by the caller per run
MaxCallers == 2     \* goroutines that call Process at the same time

\* ---------------------------------------------------------------- values
rendererType == "mem"
AnnotationSourceType == "source-type"
AnnotationContentHash == "content-hash"
AnnotationSourcePath == "source-path"
AnnotationSourceFile == "source-file"

NilObject == 0

EmptyAnn == [k \in {} |-> "x"]

\* The Object maps the caller can build: a Pod that carries an annotation of
\* its own and a ConfigMap without annotations.
PodDoc == [kind |-> "Pod", name |-> "a", key |-> "value", gen |-> 0,
           ann |-> [k \in {"user"} |-> "x"]]
ConfigMapDoc == [kind |-> "ConfigMap", name |-> "b", key |-> "value", gen |-> 0,
                 ann |-> EmptyAnn]
Bodies == {"Pod", "ConfigMap", "nil"}

\* An Object that another renderer produced: it already carries that
\* renderer's source annotations and a digest annotation.
TaggedDoc == [kind |-> "ConfigMap", name |-> "t", key |-> "value", gen |-> 0,
              ann |-> [k \in {AnnotationSourceType, AnnotationSourcePath,
                               AnnotationContentHash} |->
                          IF k = AnnotationSourceType THEN "helm"
                          ELSE IF k = AnnotationSourcePath THEN "chart"
                          ELSE <<"sha256", "stale">>]]

BodyDoc(b) ==
    IF b = "Pod" THEN PodDoc
    ELSE IF b = "Tagged" THEN TaggedDoc
    ELSE ConfigMapDoc

NoErr == [kind |-> "none", stage |-> 0]
Err(k, s) == [kind |-> k, stage |-> s]

\* ---------------------------------------------------------------- helpers
SeqsUpTo(S, n) == UNION {[1..m -> S] : m \in 0..n}

RECURSIVE Flatten(_)
Flatten(ss) == IF ss = <<>> THEN <<>> ELSE Head(ss) \o Flatten(Tail(ss))

MapPut(f, k, v) == [x \in (DOMAIN f) \cup {k} |-> IF x = k THEN v ELSE f[x]]
MapDel(f, k) == [x \in (DOMAIN f) \ {k} |-> f[x]]

\* ---------------------------------------------------------------- options
\* The stages and selectors a caller can register. They are opaque functions
\* to the renderer; the model gives each a small deterministic behaviour.
FilterFns == {"keepPod", "failF"}
TransformerFns == {"bump"}
PostRendererFns == {"dropFirst"}
SelectorFns == {"firstIsPod", "selErr"}
SourcePostFns == {"bump", "failP"}

\* The zero value of the RendererOptions struct.
ZeroOptions == [Filters |-> <<>>, Transformers |-> <<>>, PostRenderers |-> <<>>,
                SourceSelectors |-> <<>>, SourceAnnotations |-> FALSE,
                ContentHash |-> FALSE]

\* The literal New starts from.
DefaultOptions == [ZeroOptions EXCEPT !.ContentHash = TRUE]

Opt(t, f, b, v) == [type |-> t, fn |-> f, flag |-> b, val |-> v]

WithFilter(f) == Opt("WithFilter", f, FALSE, ZeroOptions)
WithTransformer(t) == Opt("WithTransformer", t, FALSE, ZeroOptions)
WithPostRenderer(p) == Opt("WithPostRenderer", p, FALSE, ZeroOptions)
WithSourceSelector(s) == Opt("WithSourceSelector", s, FALSE, ZeroOptions)
WithSourceAnnotations(enabled) == Opt("WithSourceAnnotations", "", enabled, ZeroOptions)
WithContentHash(enabled) == Opt("WithContentHash", "", enabled, ZeroOptions)
StructOption(v) == Opt("RendererOptions", "", FALSE, v)

\* RendererOptions values a caller passes as a struct option.
StructValues ==
    { [ZeroOptions EXCEPT !.Filters = <<"keepPod">>],
      [ZeroOptions EXCEPT !.PostRenderers = <<"dropFirst">>,
                          !.SourceSelectors = <<"firstIsPod">>,
                          !.SourceAnnotations = TRUE,
                          !.ContentHash = TRUE] }

Options ==
    {WithFilter(f) : f \in FilterFns}
    \cup {WithTransformer(t) : t \in TransformerFns}
    \cup {WithPostRenderer(p) : p \in PostRendererFns}
    \cup {WithSourceSelector(s) : s \in SelectorFns}
    \cup {WithSourceAnnotations(b) : b \in BOOLEAN}
    \cup {WithContentHash(b) : b \in BOOLEAN}
    \cup {StructOption(v) : v \in StructValues}

\* A struct option that appends its filters and transformers.
StructAppendTo(opts, target) ==
    [Filters |-> target.Filters \o opts.Filters,
     Transformers |-> target.Transformers \o opts.Transformers,
     PostRenderers |-> target.PostRenderers \o opts.PostRenderers,
     SourceSelectors |-> target.SourceSelectors \o opts.SourceSelectors,
     SourceAnnotations |-> opts.SourceAnnotations,
     ContentHash |-> opts.ContentHash]

\* RendererOptions.ApplyTo: the struct used as an option.
StructApplyTo(opts, target) ==
    [Filters |-> opts.Filters,
     Transformers |-> opts.Transformers,
     PostRenderers |-> target.PostRenderers \o opts.PostRenderers,
     SourceSelectors |-> target.SourceSelectors \o opts.SourceSelectors,
     SourceAnnotations |-> opts.SourceAnnotations,
     ContentHash |-> opts.ContentHash]

\* opt.ApplyTo(&rendererOpts) for either kind of option: a functional option
\* runs its closure on the target.
ApplyTo(opt, target) ==
    CASE opt.type = "RendererOptions" -> StructApplyTo(opt.val, target)
      [] opt.type = "WithFilter" ->
            [target EXCEPT !.Filters = Append(@, opt.fn)]
      [] opt.type = "WithTransformer" ->
            [target EXCEPT !.Transformers = Append(@, opt.fn)]
      [] opt.type = "WithPostRenderer" ->
            [target EXCEPT !.PostRenderers = Append(@, opt.fn)]
      [] opt.type = "WithSourceSelector" ->
            [target EXCEPT !.SourceSelectors = Append(@, opt.fn)]
      [] opt.type = "WithSourceAnnotations" ->
            [target EXCEPT !.SourceAnnotations = opt.flag]
      [] opt.type = "WithContentHash" ->
            [target EXCEPT !.ContentHash = opt.flag]

\* for _, opt := range opts { opt.ApplyTo(&rendererOpts) }
RECURSIVE ApplyAll(_, _)
ApplyAll(opts, target) ==
    IF opts = <<>> THEN target
    ELSE ApplyAll(Tail(opts), ApplyTo(Head(opts), target))

\* ---------------------------------------------------------------- New
\* sourceHolder.Validate: every Object of the Source must be non-nil; the
\* error names the index of the first nil Object (0 when there is none).
ValidateHolder(objs) ==
    LET bad == {i \in 1..Len(objs) : objs[i] = NilObject}
    IN IF bad = {} THEN 0 ELSE CHOOSE i \in bad : \A j \in bad : i <= j

NilRenderer == [nil |-> TRUE, inputs |-> <<>>, opts |-> ZeroOptions]

\* A loop that validates every holder and reports the last invalid one.
ValidateEvery(inputs, sl, i, seen) ==
    LET all == [k \in 1..(Len(inputs) - i + 1) |-> i + k - 1]
        bad == {g \in i..Len(inputs) :
                  ValidateHolder(sl[inputs[g].Objects]) # 0}
        last == CHOOSE g \in bad : \A h \in bad : h <= g
    IN IF bad = {} THEN [bad |-> 0, object |-> 0, validated |-> seen \o all]
       ELSE [bad |-> last,
             object |-> ValidateHolder(sl[inputs[last].Objects]),
             validated |-> seen \o all]

\* The holder loop of New from index i on: `seen` are the indices validated so
\* far. The first holder that fails validation ends the loop.
RECURSIVE WrapAndValidate(_, _, _, _)
WrapAndValidate(inputs, sl, i, seen) ==
    IF i > Len(inputs) THEN [bad |-> 0, object |-> 0, validated |-> seen]
    ELSE LET v == ValidateHolder(sl[inputs[i].Objects])
         IN IF v # 0
            THEN [bad |-> i, object |-> v, validated |-> Append(seen, i)]
            ELSE WrapAndValidate(inputs, sl, i + 1, Append(seen, i))

\* New(inputs, opts...): the returned renderer (or nil), the error, and the
\* holders that were validated. A holder embeds the Source it was given: the
\* same slice header and post-renderer list.
NewCall(inputs, opts, sl) ==
    LET rendererOpts == ApplyAll(opts, DefaultOptions)
        w == WrapAndValidate(inputs, sl, 1, <<>>)
    IN IF w.bad # 0
       THEN [r |-> NilRenderer,
             err |-> [kind |-> "InvalidSource", index |-> w.bad - 1,
                      object |-> w.object - 1],
             validated |-> w.validated]
       ELSE [r |-> [nil |-> FALSE, inputs |-> inputs, opts |-> rendererOpts],
             err |-> [kind |-> "none", index |-> 0, object |-> 0],
             validated |-> w.validated]

\* ---------------------------------------------------------------- stages
Range(q) == {q[i] : i \in 1..Len(q)}

\* One record per step of a Process call, in the order the steps happen.
\* op is "select", "copy", "annotate", "hash", "sourceStage", "merge",
\* "applyChain" or "rendererStage"; g is the index of the Source (0 for the
\* renderer level), i the index of the object or stage, res is "ok", "reject"
\* or "error", in and out are the objects the step got and produced.
Ev(op, g, i, class, fn, res, in, out) ==
    [op |-> op, g |-> g, i |-> i, class |-> class, fn |-> fn, res |-> res,
     in |-> in, out |-> out]

\* The state outside the program that a selector or a stage may depend on:
\* TRUE while what it depends on is unavailable.
VARIABLE outage

\* The registered functions. A stage gets the heap and the objects handed to
\* it and may write to the maps of those objects.
\*   keepPod    a filter that keeps the objects of kind Pod
\*   bump       a transformer that changes every object it gets, in place
\*   dropFirst  a post-renderer that drops the first object
\*   failF, failP  stages that return an error
\*   flakyStage    a stage that returns an error while the outage lasts
RunStage(fn, h, objs) ==
    CASE fn = "flakyStage" -> [heap |-> h, objs |-> objs, failed |-> outage]
      [] fn = "keepPod" ->
            LET IsPod(a) == h[a].kind = "Pod"
            IN [heap |-> h, objs |-> SelectSeq(objs, IsPod), failed |-> FALSE]
      [] fn = "bump" ->
            [heap |-> [a \in DOMAIN h |->
                          IF a \in Range(objs)
                          THEN [h[a] EXCEPT !.gen = @ + 1] ELSE h[a]],
             objs |-> objs, failed |-> FALSE]
      [] fn = "dropFirst" ->
            [heap |-> h, objs |-> IF objs = <<>> THEN objs ELSE Tail(objs),
             failed |-> FALSE]
      [] OTHER -> [heap |-> h, objs |-> objs, failed |-> TRUE]

\*   firstIsPod  accepts a Source whose first Object is a Pod
\*   selErr      a selector that returns an error
\*   flakySel    a selector that returns an error while the outage lasts
RunSelector(fn, h, objs) ==
    CASE fn = "flakySel" -> [ok |-> ~outage, failed |-> outage]
      [] fn = "firstIsPod" ->
            [ok |-> /\ objs # <<>>
                    /\ objs[1] # NilObject
                    /\ h[objs[1]].kind = "Pod",
             failed |-> FALSE]
      [] OTHER -> [ok |-> FALSE, failed |-> TRUE]

\* pipeline.ApplySourceSelectors(ctx, holder.Source, selectors) from selector
\* i on: every selector must accept, the first one that rejects or fails ends
\* the evaluation.
RECURSIVE ApplySourceSelectors(_, _, _, _, _, _)
ApplySourceSelectors(h, objs, selectors, i, g, tr) ==
    IF i > Len(selectors) THEN [selected |-> TRUE, failed |-> FALSE, trace |-> tr]
    ELSE LET s == RunSelector(selectors[i], h, objs)
             tr2 == Append(tr, Ev("select", g, i, "selector", selectors[i],
                                  IF s.failed THEN "error"
                                  ELSE IF s.ok THEN "ok" ELSE "reject",
                                  objs, <<>>))
         IN IF s.failed
            THEN [selected |-> FALSE, failed |-> TRUE, trace |-> tr2]
            ELSE IF ~s.ok
            THEN [selected |-> FALSE, failed |-> FALSE, trace |-> tr2]
            ELSE ApplySourceSelectors(h, objs, selectors, i + 1, g, tr2)

\* pipeline.ApplyPostRenderers(ctx, objects, chain) from stage i on: each stage
\* gets the output of the one before it, the first failure ends the chain.
\* A stage is [class, fn]; op is the event name, g the source index (0 for the
\* renderer-level chain).
RECURSIVE ApplyPostRenderers(_, _, _, _, _, _, _)
ApplyPostRenderers(h, objs, chain, i, op, g, tr) ==
    IF i > Len(chain)
    THEN [heap |-> h, objs |-> objs, failed |-> 0, trace |-> tr]
    ELSE LET s == RunStage(chain[i].fn, h, objs)
             tr2 == Append(tr, Ev(op, g, i, chain[i].class, chain[i].fn,
                                  "ok", objs, s.objs))
         IN IF s.failed
            THEN [heap |-> s.heap, objs |-> <<>>, failed |-> i,
                  trace |-> Append(tr, Ev(op, g, i, chain[i].class,
                                          chain[i].fn, "error", objs, <<>>))]
            ELSE ApplyPostRenderers(s.heap, s.objs, chain, i + 1, op, g, tr2)

Stages(class, fns) == [i \in 1..Len(fns) |-> [class |-> class, fn |-> fns[i]]]

\* types.BuildPostRendererChain(filters, transformers, postRenderers)
BuildPostRendererChain(filters, transformers, postRenderers) ==
    Stages("filter", filters) \o Stages("transformer", transformers)
        \o Stages("postRenderer", postRenderers)

\* ---------------------------------------------------------------- Process
\* Addresses: the Objects of the Sources, one object the caller may build
\* later, and from FreshBase on the copies a Process call allocates.
Addr(g, i) == (g - 1) * MaxObjs + i
SpareAddr == MaxGroups * MaxObjs + 1
FreshBase == SpareAddr + 1

\* A copy that shares the map of the original.
ShallowCopy(h, n, a) == [heap |-> h, next |-> n, ref |-> a]

\* obj.DeepCopy(): a new map with the same content, at the next free address.
DeepCopy(h, n, a) == [heap |-> MapPut(h, n, h[a]), next |-> n + 1, ref |-> n]

\* An annotation step that always starts from a new, empty map.
AnnotateFresh(doc) ==
    [doc EXCEPT !.ann = MapPut(EmptyAnn, AnnotationSourceType, rendererType)]

\* An annotation step that keeps a source-type key the copy already has.
AnnotateMissing(doc) ==
    IF AnnotationSourceType \in DOMAIN doc.ann THEN doc
    ELSE [doc EXCEPT !.ann = MapPut(@, AnnotationSourceType, rendererType)]

\* The SourceAnnotations block: the annotations of the copy (created when the
\* copy has none) get the source-type key.
AnnotateSource(doc) ==
    [doc EXCEPT !.ann = MapPut(@, AnnotationSourceType, rendererType)]

\* The digest of an object: its content without the digest annotation. The
\* body of types.SetContentHash is not part of the sources; Process hands it
\* the copy after the annotation block, and which annotations of that copy the
\* digest covers is a choice of this model, not a fact about the library.
ContentHash(doc) ==
    <<"sha256", doc.kind, doc.name, doc.key, doc.gen,
      MapDel(doc.ann, AnnotationContentHash)>>

\* types.SetContentHash(&obj)
SetContentHash(doc) ==
    [doc EXCEPT !.ann = MapPut(@, AnnotationContentHash, ContentHash(doc))]

\* for _, obj := range holder.Objects { ... } from object i on: copy, annotate
\* when enabled, append to sourceObjects (acc).
RECURSIVE CopyObjects(_, _, _, _, _, _)
CopyObjects(st, objs, i, g, annotate, acc) ==
    IF i > Len(objs) THEN [st |-> st, objs |-> acc]
    ELSE LET c == DeepCopy(st.heap, st.next, objs[i])
             h2 == IF annotate
                   THEN [c.heap EXCEPT ![c.ref] = AnnotateSource(@)]
                   ELSE c.heap
             tr2 == Append(st.trace,
                           Ev("copy", g, i, "", "", "ok", <<objs[i]>>, <<c.ref>>))
             tr3 == IF annotate
                    THEN Append(tr2, Ev("annotate", g, i, "", "", "ok",
                                        <<c.ref>>, <<c.ref>>))
                    ELSE tr2
         IN CopyObjects([heap |-> h2, next |-> c.next, trace |-> tr3],
                        objs, i + 1, g, annotate, Append(acc, c.ref))

\* for i := range sourceObjects { types.SetContentHash(&sourceObjects[i]) }
RECURSIVE HashObjects(_, _, _, _)
HashObjects(st, objs, i, g) ==
    IF i > Len(objs) THEN st
    ELSE HashObjects(
            [st EXCEPT !.heap[objs[i]] = SetContentHash(@),
                       !.trace = Append(@, Ev("hash", g, i, "", "", "ok",
                                              <<objs[i]>>, <<objs[i]>>))],
            objs, i + 1, g)

\* A loop that never skips a Source.
SkipNone(sel) == FALSE

\* if !selected { continue }
SkipSource(sel) == ~sel.selected

\* The objects of the Source put in front of the ones merged so far.
PrependSource(allObjects, sourceObjects) == sourceObjects \o allObjects

\* allObjects = append(allObjects, sourceObjects...)
AppendSource(allObjects, sourceObjects) == allObjects \o sourceObjects

\* A failure that returns the objects built so far with the error.
PartialFailure(st, allObjects, err) ==
    [heap |-> st.heap, nil |-> FALSE, objs |-> allObjects, err |-> err,
     trace |-> st.trace]

\* return nil, fmt.Errorf(...): the objects built so far are dropped.
Failure(st, allObjects, err) ==
    [heap |-> st.heap, nil |-> TRUE, objs |-> <<>>, err |-> err,
     trace |-> st.trace]

\* The loop over the holders, for _, holder := range r.inputs { ... }, from
\* holder g on, one definition per step of the loop body; st is the heap, the
\* next free address and the steps so far.
RECURSIVE ProcessSources(_, _, _, _, _)

\* A Process that reports the failure of a source post-renderer with the
\* message of the renderer-level chain.
SourceProcessedAsRender(r, sl, g, allObjects, next, p) ==
    IF p.failed # 0
    THEN [st |-> [heap |-> p.heap, next |-> next, trace |-> p.trace],
          objs |-> allObjects,
          err |-> Err("RenderPostRenderError", p.failed)]
    ELSE ProcessSources(r, sl,
            [heap |-> p.heap, next |-> next,
             trace |-> Append(p.trace, Ev("merge", g, 0, "", "", "ok",
                                          p.objs, p.objs))],
            g + 1, AppendSource(allObjects, p.objs))

\* allObjects = append(allObjects, sourceObjects...) after the post-renderers
\* of the Source (result p); their failure ends the call.
SourceProcessed(r, sl, g, allObjects, next, p) ==
    IF p.failed # 0
    THEN [st |-> [heap |-> p.heap, next |-> next, trace |-> p.trace],
          objs |-> allObjects,
          err |-> Err("SourcePostRenderError", p.failed)]
    ELSE ProcessSources(r, sl,
            [heap |-> p.heap, next |-> next,
             trace |-> Append(p.trace, Ev("merge", g, 0, "", "", "ok",
                                          p.objs, p.objs))],
            g + 1, AppendSource(allObjects, p.objs))

\* A Process that computes the digests again on what the post-renderers of
\* the Source return.
SourceHashedAgain(r, sl, g, allObjects, st, sourceObjects) ==
    LET p == ApplyPostRenderers(st.heap, sourceObjects,
                                Stages("source", r.inputs[g].PostRenderers),
                                1, "sourceStage", g, st.trace)
        h == HashObjects([heap |-> p.heap, next |-> st.next,
                          trace |-> p.trace], p.objs, 1, g)
    IN SourceProcessed(r, sl, g, allObjects, st.next,
                       IF p.failed # 0 \/ ~r.opts.ContentHash THEN p
                       ELSE [p EXCEPT !.heap = h.heap, !.trace = h.trace])

\* sourceObjects, err = pipeline.ApplyPostRenderers(ctx, sourceObjects,
\*                                                  holder.PostRenderers)
SourceHashed(r, sl, g, allObjects, st, sourceObjects) ==
    SourceProcessed(r, sl, g, allObjects, st.next,
        ApplyPostRenderers(st.heap, sourceObjects,
                           Stages("source", r.inputs[g].PostRenderers),
                           1, "sourceStage", g, st.trace))

\* A Process that leaves the digest step out.
SourceNotHashed(r, sl, g, allObjects, c) ==
    SourceHashed(r, sl, g, allObjects, c.st, c.objs)

\* if r.opts.ContentHash { ... } on the copies c.objs
SourceCopied(r, sl, g, allObjects, c) ==
    SourceHashed(r, sl, g, allObjects,
                 IF r.opts.ContentHash THEN HashObjects(c.st, c.objs, 1, g)
                 ELSE c.st,
                 c.objs)

\* A loop that a rejected Source ends (break where the code has continue).
SourceSelectedBreak(r, sl, st, g, allObjects, sel) ==
    IF sel.failed
    THEN [st |-> [st EXCEPT !.trace = sel.trace], objs |-> allObjects,
          err |-> Err("SourceSelectorError", 0)]
    ELSE IF SkipSource(sel)
    THEN [st |-> [st EXCEPT !.trace = sel.trace], objs |-> allObjects,
          err |-> NoErr]
    ELSE SourceCopied(r, sl, g, allObjects,
            CopyObjects([st EXCEPT !.trace = sel.trace],
                        sl[r.inputs[g].Objects], 1, g,
                        r.opts.SourceAnnotations, <<>>))

\* The result sel of the selectors: an error ends the call, a rejected Source
\* is skipped, an accepted one is copied.
SourceSelected(r, sl, st, g, allObjects, sel) ==
    IF sel.failed
    THEN [st |-> [st EXCEPT !.trace = sel.trace], objs |-> allObjects,
          err |-> Err("SourceSelectorError", 0)]
    ELSE IF SkipSource(sel)
    THEN ProcessSources(r, sl, [st EXCEPT !.trace = sel.trace], g + 1,
                        allObjects)
    ELSE SourceCopied(r, sl, g, allObjects,
            CopyObjects([st EXCEPT !.trace = sel.trace],
                        sl[r.inputs[g].Objects], 1, g,
                        r.opts.SourceAnnotations, <<>>))

\* A loop that validates each holder again before it selects it.
ProcessSourcesValidating(r, sl, st, g, allObjects) ==
    IF g > Len(r.inputs)
    THEN [st |-> st, objs |-> allObjects, err |-> NoErr]
    ELSE IF ValidateHolder(sl[r.inputs[g].Objects]) # 0
    THEN [st |-> st, objs |-> allObjects, err |-> Err("InvalidSource", 0)]
    ELSE SourceSelected(r, sl, st, g, allObjects,
            ApplySourceSelectors(st.heap, sl[r.inputs[g].Objects],
                                 r.opts.SourceSelectors, 1, g,
                                 Append(st.trace,
                                        Ev("validate", g, 0, "", "", "ok",
                                           <<>>, <<>>))))

ProcessSources(r, sl, st, g, allObjects) ==
    IF g > Len(r.inputs)
    THEN [st |-> st, objs |-> allObjects, err |-> NoErr]
    ELSE SourceSelected(r, sl, st, g, allObjects,
            ApplySourceSelectors(st.heap, sl[r.inputs[g].Objects],
                                 r.opts.SourceSelectors, 1, g, st.trace))

\* A chain built with the transformers where the filters belong.
SwappedChain(opts) ==
    BuildPostRendererChain(opts.Transformers, opts.Filters, opts.PostRenderers)

\* chain := types.BuildPostRendererChain(r.opts.Filters, r.opts.Transformers,
\*                                       r.opts.PostRenderers)
RendererChain(opts) ==
    BuildPostRendererChain(opts.Filters, opts.Transformers, opts.PostRenderers)

\* A Process that returns a nil slice when the chain leaves no object.
ChainAppliedNilEmpty(allObjects, next, res) ==
    IF res.failed # 0
    THEN Failure([heap |-> res.heap, next |-> next, trace |-> res.trace],
                 allObjects, Err("RenderPostRenderError", res.failed))
    ELSE [heap |-> res.heap, nil |-> res.objs = <<>>, objs |-> res.objs,
          err |-> NoErr, trace |-> res.trace]

\* return result, nil, or the failure of the renderer-level chain (result res).
ChainApplied(allObjects, next, res) ==
    IF res.failed # 0
    THEN Failure([heap |-> res.heap, next |-> next, trace |-> res.trace],
                 allObjects, Err("RenderPostRenderError", res.failed))
    ELSE [heap |-> res.heap, nil |-> FALSE, objs |-> res.objs,
          err |-> NoErr, trace |-> res.trace]

\* A Process that runs the renderer-level chain before it looks at the error
\* of the loop.
SourcesMergedChainFirst(r, m) ==
    LET res == ApplyPostRenderers(m.st.heap, m.objs, RendererChain(r.opts), 1,
                                  "rendererStage", 0,
                                  Append(m.st.trace,
                                         Ev("applyChain", 0, 0, "", "", "ok",
                                            m.objs, <<>>)))
    IN IF m.err.kind # "none"
       THEN Failure([heap |-> res.heap, next |-> m.st.next,
                     trace |-> res.trace], m.objs, m.err)
       ELSE ChainApplied(m.objs, m.st.next, res)

\* The part of Process after the loop (result m): build the chain, apply it.
SourcesMerged(r, m) ==
    IF m.err.kind # "none" THEN Failure(m.st, m.objs, m.err)
    ELSE ChainApplied(m.objs, m.st.next,
            ApplyPostRenderers(m.st.heap, m.objs, RendererChain(r.opts), 1,
                               "rendererStage", 0,
                               Append(m.st.trace,
                                      Ev("applyChain", 0, 0, "", "", "ok",
                                         m.objs, <<>>))))

\* Renderer.Process on heap h: the heap after the call, the returned slice
\* (nil or the addresses of the returned objects), the error and the steps.
ProcessCall(r, h, sl) ==
    SourcesMerged(r, ProcessSources(r, sl, [heap |-> h, next |-> FreshBase,
                                            trace |-> <<>>], 1, <<>>))

\* ------------------------------------------------- the simpler Process
\* The variant of Process without source selectors and post-renderers: copy
\* and annotate the Objects of all holders, set all digests, then apply the
\* filters and transformers.

\* for _, holder := range r.inputs { for _, obj := range holder.Objects {...} }
\* from holder g on; the copy loop is the one of the richer variant.
RECURSIVE SimpleCopyAll(_, _, _, _, _)
SimpleCopyNext(r, sl, g, c) == SimpleCopyAll(r, sl, c.st, g + 1, c.objs)

SimpleCopyAll(r, sl, st, g, allObjects) ==
    IF g > Len(r.inputs) THEN [st |-> st, objs |-> allObjects]
    ELSE SimpleCopyNext(r, sl, g,
            CopyObjects(st, sl[r.inputs[g].Objects], 1, g,
                        r.opts.SourceAnnotations, allObjects))

\* if r.opts.ContentHash { for i := range allObjects { ... } }
SimpleHashed(r, c) ==
    [st |-> IF r.opts.ContentHash THEN HashObjects(c.st, c.objs, 1, 0)
            ELSE c.st,
     objs |-> c.objs]

\* pipeline.Apply(ctx, objects, filters, transformers): the filters in order,
\* then the transformers in order; the first failure ends it.
Apply(h, objs, filters, transformers, tr) ==
    ApplyPostRenderers(h, objs,
                       Stages("filter", filters)
                           \o Stages("transformer", transformers),
                       1, "apply", 0, tr)

\* return transformed, nil, or the failure of pipeline.Apply (result res).
SimpleApplied(c, res) ==
    IF res.failed # 0
    THEN Failure([heap |-> res.heap, trace |-> res.trace], c.objs,
                 Err("ApplyError", res.failed))
    ELSE [heap |-> res.heap, nil |-> FALSE, objs |-> res.objs,
          err |-> NoErr, trace |-> res.trace]

SimpleTransformed(r, c) ==
    SimpleApplied(c, Apply(c.st.heap, c.objs, r.opts.Filters,
                           r.opts.Transformers, c.st.trace))

\* The simpler Renderer.Process on heap h.
SimpleProcessCall(r, h, sl) ==
    SimpleTransformed(r,
        SimpleHashed(r,
            SimpleCopyAll(r, sl, [heap |-> h, next |-> FreshBase,
                                  trace |-> <<>>], 1, <<>>)))

\* The render-time values a caller can pass: nil, an empty map, a map with an
\* entry.
NilValues == "nil"
RenderValues == {NilValues, "empty", "set"}

\* A Process that writes the values it gets into the objects it returns.
ProcessUsingValues(r, h, sl, values) ==
    LET p == ProcessCall(r, h, sl)
    IN [p EXCEPT !.heap = [a \in DOMAIN p.heap |->
                              IF a \in Range(p.objs) /\ values # NilValues
                              THEN [p.heap[a] EXCEPT !.key = values]
                              ELSE p.heap[a]]]

\* func (r *Renderer) Process(ctx context.Context, _ types.Values): the values
\* parameter has no name, the body cannot refer to it.
ProcessValues(r, h, sl, values) == ProcessCall(r, h, sl)

\* What the caller gets from a Process call, by value.
RetOf(p) ==
    [nil |-> p.nil, objs |-> [i \in 1..Len(p.objs) |-> p.heap[p.objs[i]]],
     err |-> p.err]

\* ---------------------------------------------------------------- state
VARIABLES
    phase,         \* "start", then "ready" (New returned a renderer) or "failed"
    callerInputs,  \* the caller's []Source: [Objects: slice, PostRenderers]
    callerOpts,    \* the options the caller passes to New
    slices,        \* backing arrays of the Objects slices: slice -> addresses
    heap,          \* Object maps: address -> content
    r,             \* the *Renderer New returned
    engine,        \* what NewEngine returned: "none", "nil" or "engine"
    newErr,        \* the error New returned
    validated,     \* the indices of the holders New validated, in order
    result,        \* the slice the last Process call returned (addresses)
    ret,           \* the last return of Process, by value, as it was returned
    prevRet,       \* the return of the Process call before that
    trace,         \* the steps of the last Process call
    lastOp,        \* the operation that produced this state
    calls,         \* Process calls so far
    mutations,     \* mutations by the caller so far
    dirty,         \* the caller changed its inputs since the last Process call
    changed,       \* ... between the last two Process calls
    atNew,         \* heap and slices as they were when New returned
    inflight,      \* the Process calls of concurrent callers: where each is
    values         \* the render-time values of the last Process call

vars == <<phase, callerInputs, callerOpts, slices, heap, r, engine, newErr,
          validated, result, ret, prevRet, trace, lastOp, calls, mutations,
          dirty, changed, atNew, inflight, values, outage>>

Resolve(h, objs) == [i \in 1..Len(objs) |-> h[objs[i]]]

\* The content of the Objects the renderer holds.
Stored(rr, h, sl) ==
    [g \in 1..Len(rr.inputs) |-> Resolve(h, sl[rr.inputs[g].Objects])]

NoReturn == [nil |-> TRUE, objs |-> <<>>, err |-> NoErr]
NoNewErr == [kind |-> "none", index |-> 0, object |-> 0]

\* The goroutines that call Process concurrently, and a call that has not
\* started: pc is the statement it is at, g the holder and i the object or
\* stage it is at, sourceObjects and allObjects are its local slices, next is
\* the address of its next allocation, objs and ret are what it returned.
Callers == 1..MaxCallers
NotStarted ==
    [pc |-> "idle", g |-> 0, i |-> 0, sourceObjects |-> <<>>,
     allObjects |-> <<>>, next |-> 0, nil |-> TRUE, objs |-> <<>>,
     ret |-> NoReturn]

\* ---------------------------------------------------------------- Init
\* What the caller has built before it calls New: a list of Sources and a list
\* of options. Three families keep the product small: any Objects with a few
\* option lists, any source post-renderers with a few option lists, and any
\* option list with one input.
Group(bodies, post) == [bodies |-> bodies, post |-> post]

BasicOptions ==
    { <<>>,
      <<WithSourceAnnotations(TRUE), WithSourceSelector("firstIsPod")>>,
      <<WithPostRenderer("dropFirst"), WithTransformer("bump"),
        WithFilter("keepPod")>> }

ObjectScenarios ==
    { [groups |-> gs, opts |-> os] :
        gs \in SeqsUpTo({Group(b, <<>>) : b \in SeqsUpTo(Bodies, MaxObjs)},
                        MaxGroups),
        os \in BasicOptions }

PostScenarios ==
    { [groups |-> gs, opts |-> os] :
        gs \in SeqsUpTo({Group(<<"Pod", "ConfigMap">>, p) :
                            p \in SeqsUpTo(SourcePostFns, MaxSrcPost)},
                        MaxGroups),
        os \in BasicOptions }

OptionScenarios ==
    { [groups |-> <<Group(<<"Pod", "ConfigMap">>, <<"bump">>),
                    Group(<<"ConfigMap">>, <<>>)>>,
       opts |-> os] : os \in SeqsUpTo(Options, MaxOpts) }

\* Objects that come with annotations of another renderer, with the two
\* annotation switches in every position.
TaggedScenarios ==
    { [groups |-> <<Group(<<"Tagged", "Pod">>, <<>>)>>, opts |-> os] :
        os \in { <<WithSourceAnnotations(a), WithContentHash(c)>> :
                    a \in BOOLEAN, c \in BOOLEAN } }

\* Renderers that have nothing to render: no Source, Sources without Objects,
\* Sources a selector rejects; with stages that work and stages that fail.
EmptyScenarios ==
    { [groups |-> gs, opts |-> os] :
        gs \in { <<>>,
                 <<Group(<<>>, <<>>), Group(<<>>, <<"bump">>)>>,
                 <<Group(<<>>, <<"failP">>)>>,
                 <<Group(<<"ConfigMap", "Pod">>, <<"failP">>),
                   Group(<<>>, <<>>)>> },
        os \in { <<WithTransformer("bump")>>,
                 <<WithSourceSelector("firstIsPod"), WithTransformer("bump")>>,
                 <<WithSourceSelector("firstIsPod"), WithFilter("failF")>> } }

\* Renderers with filters and transformers only: no selector, no
\* post-renderer of a Source or of the renderer.
PlainScenarios ==
    { [groups |-> <<Group(<<"Pod", "ConfigMap">>, <<>>),
                    Group(<<"Tagged", "Pod">>, <<>>)>>,
       opts |-> os] :
        os \in { <<WithSourceAnnotations(TRUE), WithFilter("keepPod")>>,
                 <<WithTransformer("bump"), WithFilter("keepPod")>>,
                 <<WithContentHash(FALSE), WithTransformer("bump")>>,
                 <<WithTransformer("bump"), WithFilter("failF")>> } }

Scenarios ==
    ObjectScenarios \cup PostScenarios \cup OptionScenarios
        \cup TaggedScenarios \cup EmptyScenarios \cup PlainScenarios

GroupOf(a) == ((a - 1) \div MaxObjs) + 1
IndexOf(a) == ((a - 1) % MaxObjs) + 1

Init ==
    \E sc \in Scenarios :
        /\ callerInputs = [g \in 1..Len(sc.groups) |->
                              [Objects |-> g,
                               PostRenderers |-> sc.groups[g].post]]
        /\ callerOpts = sc.opts
        /\ slices = [g \in 0..Len(sc.groups) |->
                        IF g = 0 THEN <<>>
                        ELSE [i \in 1..Len(sc.groups[g].bodies) |->
                                 IF sc.groups[g].bodies[i] = "nil"
                                 THEN NilObject ELSE Addr(g, i)]]
        /\ heap = [a \in UNION {{Addr(g, i) : i \in {j \in 1..Len(sc.groups[g].bodies) :
                                                     sc.groups[g].bodies[j] # "nil"}} :
                                  g \in 1..Len(sc.groups)}
                     |-> BodyDoc(sc.groups[GroupOf(a)].bodies[IndexOf(a)])]
        /\ phase = "start"
        /\ r = NilRenderer
        /\ engine = "none"
        /\ newErr = NoNewErr
        /\ validated = <<>>
        /\ result = [nil |-> TRUE, objs |-> <<>>]
        /\ ret = NoReturn
        /\ prevRet = NoReturn
        /\ trace = <<>>
        /\ lastOp = "none"
        /\ calls = 0
        /\ mutations = 0
        /\ dirty = FALSE
        /\ changed = FALSE
        /\ atNew = [heap |-> heap, slices |-> slices]
        /\ inflight = [t \in Callers |-> NotStarted]
        /\ values = NilValues
        /\ outage = FALSE

\* ---------------------------------------------------------------- actions
\* mem.New(callerInputs, callerOpts...)
New ==
    /\ phase = "start"
    /\ LET n == NewCall(callerInputs, callerOpts, slices)
       IN /\ r' = n.r
          /\ newErr' = n.err
          /\ validated' = n.validated
          /\ phase' = IF n.r.nil THEN "failed" ELSE "ready"
    /\ engine' = "none"
    /\ atNew' = [heap |-> heap, slices |-> slices]
    /\ lastOp' = "New"
    /\ UNCHANGED <<inflight, values, outage>>
    /\ UNCHANGED <<callerInputs, callerOpts, slices, heap, result, ret,
                   prevRet, trace, calls, mutations, dirty, changed>>

\* mem.NewEngine(callerInputs[0], callerOpts...): New with that one Source; a
\* failure of New is returned with a nil engine.
NewEngine ==
    /\ phase = "start"
    /\ callerInputs # <<>>
    /\ LET n == NewCall(<<callerInputs[1]>>, callerOpts, slices)
       IN /\ r' = n.r
          /\ newErr' = n.err
          /\ validated' = n.validated
          /\ phase' = IF n.r.nil THEN "failed" ELSE "ready"
          /\ engine' = IF n.r.nil THEN "nil" ELSE "engine"
    /\ atNew' = [heap |-> heap, slices |-> slices]
    /\ lastOp' = "NewEngine"
    /\ UNCHANGED <<inflight, values, outage>>
    /\ UNCHANGED <<callerInputs, callerOpts, slices, heap, result, ret,
                   prevRet, trace, calls, mutations, dirty, changed>>

\* The maps the caller and the renderer can reach; the copies of the previous
\* Process call are the caller's to drop.
Kept(h) == [a \in {x \in DOMAIN h : x < FreshBase} |-> h[a]]

\* r.Process(ctx, v)
ProcessWith(v) ==
    /\ phase = "ready"
    /\ calls < MaxCalls
    /\ LET p == ProcessValues(r, Kept(heap), slices, v)
       IN /\ heap' = p.heap
          /\ result' = [nil |-> p.nil, objs |-> p.objs]
          /\ ret' = RetOf(p)
          /\ trace' = p.trace
    /\ values' = v
    /\ prevRet' = ret
    /\ calls' = calls + 1
    /\ changed' = dirty
    /\ dirty' = FALSE
    /\ lastOp' = "Process"
    /\ UNCHANGED <<inflight, outage>>
    /\ UNCHANGED <<phase, callerInputs, callerOpts, slices, r, engine, newErr,
                   validated, mutations, atNew>>

\* r.Process(ctx, nil), as every caller in the tests calls it
Process == ProcessWith(NilValues)

\* r.Process(ctx, values) with any values
ProcessAnyValues == \E v \in RenderValues : ProcessWith(v)

\* The caller writes to a map it passed to New: obj.Object["key"] = "modified"
MutateObject ==
    /\ phase = "ready"
    /\ mutations < MaxMutations
    /\ \E g \in 1..Len(callerInputs) :
         \E i \in 1..Len(slices[callerInputs[g].Objects]) :
            LET a == slices[callerInputs[g].Objects][i]
            IN /\ a # NilObject
               /\ heap' = [heap EXCEPT ![a].key = "modified"]
    /\ mutations' = mutations + 1
    /\ dirty' = TRUE
    /\ lastOp' = "MutateObject"
    /\ UNCHANGED <<inflight, values, outage>>
    /\ UNCHANGED <<phase, callerInputs, callerOpts, slices, r, engine, newErr,
                   validated, result, ret, prevRet, trace, calls, changed, atNew>>

\* The caller replaces an element of a Document list it passed to New:
\* inputs[g].Objects[i] = unstructured.Unstructured{Object: <a new map>}
ReplaceObject ==
    /\ phase = "ready"
    /\ mutations < MaxMutations
    /\ \E g \in 1..Len(callerInputs) :
         \E i \in 1..Len(slices[callerInputs[g].Objects]) :
            /\ slices' = [slices EXCEPT ![callerInputs[g].Objects][i] = SpareAddr]
            /\ heap' = MapPut(heap, SpareAddr,
                              [PodDoc EXCEPT !.name = "c", !.key = "modified"])
    /\ mutations' = mutations + 1
    /\ dirty' = TRUE
    /\ lastOp' = "ReplaceObject"
    /\ UNCHANGED <<inflight, values, outage>>
    /\ UNCHANGED <<phase, callerInputs, callerOpts, r, engine, newErr,
                   validated, result, ret, prevRet, trace, calls, changed, atNew>>

\* The caller overwrites an element of its own []Source: inputs[g] = Source{}
ReplaceSource ==
    /\ phase = "ready"
    /\ mutations < MaxMutations
    /\ \E g \in 1..Len(callerInputs) :
         /\ callerInputs[g].Objects # 0
         /\ callerInputs' = [callerInputs EXCEPT
                                ![g] = [Objects |-> 0, PostRenderers |-> <<>>]]
    /\ mutations' = mutations + 1
    /\ dirty' = TRUE
    /\ lastOp' = "ReplaceSource"
    /\ UNCHANGED <<inflight, values, outage>>
    /\ UNCHANGED <<phase, callerOpts, slices, heap, r, engine, newErr,
                   validated, result, ret, prevRet, trace, calls, changed, atNew>>

\* The caller writes to an object a Process call returned.
MutateResult ==
    /\ phase = "ready"
    /\ mutations < MaxMutations
    /\ ~result.nil
    /\ \E k \in 1..Len(result.objs) :
         heap' = [heap EXCEPT ![result.objs[k]].key = "modified"]
    /\ mutations' = mutations + 1
    /\ lastOp' = "MutateResult"
    /\ UNCHANGED <<inflight, values, outage>>
    /\ UNCHANGED <<phase, callerInputs, callerOpts, slices, r, engine, newErr,
                   validated, result, ret, prevRet, trace, calls, dirty,
                   changed, atNew>>

Next ==
    \/ New
    \/ NewEngine
    \/ Process
    \/ MutateObject
    \/ ReplaceObject
    \/ ReplaceSource
    \/ MutateResult

Spec == Init /\ [][Next]_vars

\* ------------------------------------------------------ concurrent callers
\* Several goroutines call r.Process on one renderer. Each call runs the
\* statements of Process in order; the statements of different calls
\* interleave. A step is one selector evaluation, one object copied, one
\* digest set or one stage run. The maps a call allocates get addresses no
\* other call uses.
Base(t) == FreshBase + (t - 1) * MaxGroups * MaxObjs

ConcurrentScenarios ==
    { [groups |-> <<Group(<<"Pod", "ConfigMap">>, <<"bump">>),
                    Group(<<"ConfigMap">>, <<>>)>>,
       opts |-> os] :
        os \in { <<WithSourceAnnotations(TRUE), WithTransformer("bump")>>,
                 <<WithSourceSelector("firstIsPod"), WithFilter("keepPod")>>,
                 <<WithContentHash(FALSE), WithFilter("failF")>>,
                 <<WithSourceSelector("selErr")>> } }
    \cup { [groups |-> <<Group(<<"Tagged", "Pod">>, <<"failP">>)>>,
            opts |-> <<WithSourceAnnotations(TRUE)>>] }

\* The renderer New built from scenario sc, before any Process call.
ReadyFrom(sc) ==
    /\ callerInputs = [g \in 1..Len(sc.groups) |->
                          [Objects |-> g,
                           PostRenderers |-> sc.groups[g].post]]
    /\ callerOpts = sc.opts
    /\ slices = [g \in 0..Len(sc.groups) |->
                    IF g = 0 THEN <<>>
                    ELSE [i \in 1..Len(sc.groups[g].bodies) |-> Addr(g, i)]]
    /\ heap = [a \in UNION {{Addr(g, i) : i \in 1..Len(sc.groups[g].bodies)} :
                              g \in 1..Len(sc.groups)}
                 |-> BodyDoc(sc.groups[GroupOf(a)].bodies[IndexOf(a)])]
    /\ LET n == NewCall(callerInputs, callerOpts, slices)
       IN /\ r = n.r
          /\ newErr = n.err
          /\ validated = n.validated
    /\ phase = "ready"
    /\ engine = "none"
    /\ result = [nil |-> TRUE, objs |-> <<>>]
    /\ ret = NoReturn
    /\ prevRet = NoReturn
    /\ trace = <<>>
    /\ lastOp = "New"
    /\ calls = 0
    /\ mutations = 0
    /\ dirty = FALSE
    /\ changed = FALSE
    /\ atNew = [heap |-> heap, slices |-> slices]
    /\ inflight = [t \in Callers |-> NotStarted]
    /\ values = NilValues

ConcurrentInit ==
    \E sc \in ConcurrentScenarios :
        /\ ReadyFrom(sc)
        /\ outage = FALSE

\* What a call leaves alone: everything but the heap and its own locals.
CallerFrame ==
    UNCHANGED <<phase, callerInputs, callerOpts, slices, r, engine, newErr,
                validated, result, ret, prevRet, trace, lastOp, calls,
                mutations, dirty, changed, atNew, values, outage>>

\* return nil, fmt.Errorf(...) or return result, nil of caller t
Returns(t, p) ==
    inflight' = [inflight EXCEPT ![t].pc = "done", ![t].nil = p.nil,
                                 ![t].objs = p.objs, ![t].ret = RetOf(p)]

\* allObjects := make([]unstructured.Unstructured, 0)
StartCall ==
    \E t \in Callers :
        /\ inflight[t].pc = "idle"
        /\ inflight' = [inflight EXCEPT ![t].pc = "select", ![t].g = 1,
                                        ![t].allObjects = <<>>,
                                        ![t].next = Base(t)]
        /\ UNCHANGED heap
        /\ CallerFrame

\* for _, holder := range r.inputs { selected, err := ApplySourceSelectors(...)
\* with its three outcomes, and the end of the loop.
SelectSource ==
    \E t \in Callers :
        LET c == inflight[t]
        IN /\ c.pc = "select"
           /\ IF c.g > Len(r.inputs)
              THEN inflight' = [inflight EXCEPT ![t].pc = "chain", ![t].i = 1]
              ELSE LET sel == ApplySourceSelectors(
                                  heap, slices[r.inputs[c.g].Objects],
                                  r.opts.SourceSelectors, 1, c.g, <<>>)
                   IN IF sel.failed
                      THEN Returns(t, Failure([heap |-> heap, trace |-> <<>>],
                                              c.allObjects,
                                              Err("SourceSelectorError", 0)))
                      ELSE IF SkipSource(sel)
                      THEN inflight' = [inflight EXCEPT ![t].g = c.g + 1]
                      ELSE inflight' = [inflight EXCEPT
                                           ![t].pc = "copy", ![t].i = 1,
                                           ![t].sourceObjects = <<>>]
           /\ UNCHANGED heap
           /\ CallerFrame

\* One iteration of for _, obj := range holder.Objects { ... }, or its end.
CopyObject ==
    \E t \in Callers :
        LET c == inflight[t]
            objs == slices[r.inputs[c.g].Objects]
        IN /\ c.pc = "copy"
           /\ IF c.i > Len(objs)
              THEN /\ inflight' = [inflight EXCEPT ![t].pc = "hash", ![t].i = 1]
                   /\ UNCHANGED heap
              ELSE LET d == DeepCopy(heap, c.next, objs[c.i])
                   IN /\ heap' = IF r.opts.SourceAnnotations
                                  THEN [d.heap EXCEPT ![d.ref] = AnnotateSource(@)]
                                  ELSE d.heap
                      /\ inflight' = [inflight EXCEPT
                                          ![t].i = c.i + 1, ![t].next = d.next,
                                          ![t].sourceObjects = Append(@, d.ref)]
           /\ CallerFrame

\* One iteration of for i := range sourceObjects { types.SetContentHash(...) },
\* or its end, or the whole block skipped.
HashObject ==
    \E t \in Callers :
        LET c == inflight[t]
        IN /\ c.pc = "hash"
           /\ IF ~r.opts.ContentHash \/ c.i > Len(c.sourceObjects)
              THEN /\ inflight' = [inflight EXCEPT ![t].pc = "post", ![t].i = 1]
                   /\ UNCHANGED heap
              ELSE /\ heap' = [heap EXCEPT
                                  ![c.sourceObjects[c.i]] = SetContentHash(@)]
                   /\ inflight' = [inflight EXCEPT ![t].i = c.i + 1]
           /\ CallerFrame

\* One post-renderer of the Source, or after the last one
\* allObjects = append(allObjects, sourceObjects...) and the next holder.
RunSourceStage ==
    \E t \in Callers :
        LET c == inflight[t]
            chain == r.inputs[c.g].PostRenderers
        IN /\ c.pc = "post"
           /\ IF c.i > Len(chain)
              THEN /\ inflight' = [inflight EXCEPT
                                      ![t].pc = "select", ![t].g = c.g + 1,
                                      ![t].allObjects =
                                          AppendSource(@, c.sourceObjects)]
                   /\ UNCHANGED heap
              ELSE LET s == RunStage(chain[c.i], heap, c.sourceObjects)
                   IN /\ heap' = s.heap
                      /\ IF s.failed
                         THEN Returns(t, Failure(
                                  [heap |-> s.heap, trace |-> <<>>],
                                  c.allObjects,
                                  Err("SourcePostRenderError", c.i)))
                         ELSE inflight' = [inflight EXCEPT
                                              ![t].i = c.i + 1,
                                              ![t].sourceObjects = s.objs]
           /\ CallerFrame

\* One stage of the renderer-level chain, or return result, nil after the
\* last one.
RunRendererStage ==
    \E t \in Callers :
        LET c == inflight[t]
            chain == RendererChain(r.opts)
        IN /\ c.pc = "chain"
           /\ IF c.i > Len(chain)
              THEN /\ Returns(t, ChainApplied(c.allObjects, c.next,
                                    [heap |-> heap, objs |-> c.allObjects,
                                     failed |-> 0, trace |-> <<>>]))
                   /\ UNCHANGED heap
              ELSE LET s == RunStage(chain[c.i].fn, heap, c.allObjects)
                   IN /\ heap' = s.heap
                      /\ IF s.failed
                         THEN Returns(t, ChainApplied(c.allObjects, c.next,
                                    [heap |-> s.heap, objs |-> <<>>,
                                     failed |-> c.i, trace |-> <<>>]))
                         ELSE inflight' = [inflight EXCEPT
                                              ![t].i = c.i + 1,
                                              ![t].allObjects = s.objs]
           /\ CallerFrame

ConcurrentNext ==
    \/ StartCall
    \/ SelectSource
    \/ CopyObject
    \/ HashObject
    \/ RunSourceStage
    \/ RunRendererStage

ConcurrentSpec == ConcurrentInit /\ [][ConcurrentNext]_vars

\* ------------------------------------------------------- transient failures
\* A selector or a stage may depend on state outside the program (a service
\* it asks, a file it reads). While the outage lasts it returns an error.
\* The renderer is called again and again, with any render-time values, while
\* the outage comes and goes.
RetryScenarios ==
    { [groups |-> <<Group(<<"Pod", "ConfigMap">>, <<"bump">>),
                    Group(<<"ConfigMap">>, <<>>)>>,
       opts |-> os] :
        os \in { <<WithSourceSelector("flakySel")>>,
                 <<WithTransformer("bump"), WithPostRenderer("flakyStage")>>,
                 <<WithSourceAnnotations(TRUE), WithFilter("flakyStage")>>,
                 <<WithContentHash(FALSE), WithPostRenderer("flakyStage")>>,
                 <<WithFilter("failF")>> } }
    \cup { [groups |-> <<Group(<<"ConfigMap">>, <<>>),
                         Group(<<"Tagged", "Pod">>, <<"flakyStage">>)>>,
            opts |-> os] :
             os \in { <<>>, <<WithTransformer("bump")>> } }

RetryInit ==
    \E sc \in RetryScenarios :
        /\ ReadyFrom(sc)
        /\ outage \in BOOLEAN

\* The outage begins or ends.
OutageChanges ==
    /\ outage' = ~outage
    /\ lastOp' = "OutageChanges"
    /\ UNCHANGED <<phase, callerInputs, callerOpts, slices, heap, r, engine,
                   newErr, validated, result, ret, prevRet, trace, calls,
                   mutations, dirty, changed, atNew, inflight, values>>

RetryNext ==
    \/ ProcessAnyValues
    \/ OutageChanges

RetrySpec == RetryInit /\ [][RetryNext]_vars

\* ---------------------------------------------------------------- claims
Returned == lastOp = "Process"
Succeeded == Returned /\ ret.err.kind = "none"

\* C1. Copy isolation against the caller: every Process call returns what it
\* returns on the content the Documents had when New returned, whatever the
\* caller did to its own Documents and Document lists since.
C1_CopyIsolation ==
    Returned => ret = RetOf(ProcessCall(r, Kept(atNew.heap), atNew.slices))

\* C2. Process never mutates its inputs: a Process call, and a write by the
\* caller to a Document that Process returned, leave the Documents stored in
\* the Renderer as they were, and leave unchanged what a Process call returns.
C2_ProcessKeepsInputs ==
    [][lastOp' \in {"Process", "MutateResult"} =>
          /\ Stored(r', heap', slices') = Stored(r, heap, slices)
          /\ RetOf(ProcessCall(r', Kept(heap'), slices'))
                = RetOf(ProcessCall(r, Kept(heap), slices))]_vars

\* A second Process call has returned, a stage that writes to the Documents it
\* gets ran in both, and the caller wrote to a Document of the first result.
C2_Witness ==
    /\ Succeeded
    /\ calls = 2
    /\ mutations = 1
    /\ ~changed
    /\ \E k \in 1..Len(trace) : trace[k].fn = "bump"
    /\ \E k \in 1..Len(trace) : trace[k].op = "hash"
    /\ ret.objs # <<>>

\* C3. Determinism: two successive Process calls with no change to the inputs
\* in between return the same Documents, digests included, and the same error.
C3_Deterministic ==
    (Returned /\ calls >= 2 /\ ~changed) => ret = prevRet

\* Two calls without a change in between returned Documents with a digest.
C3_Witness ==
    /\ Succeeded
    /\ calls = 2
    /\ ~changed
    /\ ret.objs # <<>>
    /\ \A k \in 1..Len(ret.objs) :
          AnnotationContentHash \in DOMAIN ret.objs[k].ann

\* ---- reading the steps of the last Process call
EventsOf(op, g) ==
    LET Is(e) == e.op = op /\ e.g = g IN SelectSeq(trace, Is)

Objects(g) == slices[r.inputs[g].Objects]

\* Every configured selector accepts Source g.
Accepted(g) ==
    \A k \in 1..Len(r.opts.SourceSelectors) :
        LET s == RunSelector(r.opts.SourceSelectors[k], heap, Objects(g))
        IN ~s.failed /\ s.ok

\* Some per-source work was done for Source g.
Included(g) ==
    \E k \in 1..Len(trace) :
        /\ trace[k].g = g
        /\ trace[k].op \in {"copy", "annotate", "hash", "sourceStage", "merge"}

\* The stored object that the returned object a is a copy of.
SrcOf(a) ==
    LET e == CHOOSE e \in Range(trace) : e.op = "copy" /\ e.out = <<a>>
    IN e.in[1]

IsCopy(a) == \E e \in Range(trace) : e.op = "copy" /\ e.out = <<a>>

\* What Source g contributes to the merge: the output of its last
\* post-renderer, or its copies when it has none.
SourceOut(g) ==
    LET st == EventsOf("sourceStage", g)
        cp == EventsOf("copy", g)
    IN IF st # <<>> THEN st[Len(st)].out
       ELSE [k \in 1..Len(cp) |-> cp[k].out[1]]

\* No configured stage removes an object.
KeepsAll(fns) == \A k \in 1..Len(fns) : fns[k] = "bump"
NothingRemoved ==
    /\ KeepsAll(r.opts.Filters)
    /\ KeepsAll(r.opts.Transformers)
    /\ KeepsAll(r.opts.PostRenderers)
    /\ \A g \in 1..Len(r.inputs) : KeepsAll(r.inputs[g].PostRenderers)

\* C4. Selector gating: per-source work is done only for Sources that every
\* selector accepts, and in a call that succeeds for all of them; no returned
\* Document comes from a rejected Source; when no stage removes Documents the
\* result is the Documents of the accepted Sources in their original order.
C4_SelectorGating ==
    Returned =>
      /\ \A g \in 1..Len(r.inputs) : Included(g) => Accepted(g)
      /\ Succeeded =>
            /\ \A g \in 1..Len(r.inputs) :
                  Accepted(g) => EventsOf("merge", g) # <<>>
            /\ \A k \in 1..Len(result.objs) :
                  /\ IsCopy(result.objs[k])
                  /\ \E g \in 1..Len(r.inputs) :
                        /\ Accepted(g)
                        /\ SrcOf(result.objs[k]) \in Range(Objects(g))
            /\ NothingRemoved =>
                  [k \in 1..Len(result.objs) |-> SrcOf(result.objs[k])]
                    = Flatten([g \in 1..Len(r.inputs) |->
                                 IF Accepted(g) THEN Objects(g) ELSE <<>>])

\* A call succeeded in which a Source with Documents was rejected and a later
\* Source was accepted and returned.
C4_Witness ==
    /\ Succeeded
    /\ Len(r.inputs) = 2
    /\ Objects(1) # <<>> /\ ~Accepted(1)
    /\ Accepted(2)
    /\ NothingRemoved
    /\ Len(result.objs) = 2

\* C5. Merge order: the renderer-level chain gets the per-source results of
\* the Sources concatenated in ascending index; with no selectors and no stages
\* Process returns one Document per stored Document, in input order.
C5_MergeOrder ==
    Returned =>
      /\ \A k \in 1..Len(trace) :
            trace[k].op = "applyChain" =>
               trace[k].in = Flatten([g \in 1..Len(r.inputs) |-> SourceOut(g)])
      /\ ( /\ r.opts.SourceSelectors = <<>>
           /\ RendererChain(r.opts) = <<>>
           /\ \A g \in 1..Len(r.inputs) : r.inputs[g].PostRenderers = <<>> )
         => /\ Succeeded
            /\ [k \in 1..Len(result.objs) |-> SrcOf(result.objs[k])]
                 = Flatten([g \in 1..Len(r.inputs) |-> Objects(g)])
            /\ \A k \in 1..Len(ret.objs) :
                  LET in == heap[SrcOf(result.objs[k])]
                  IN /\ ret.objs[k].kind = in.kind
                     /\ ret.objs[k].name = in.name
                     /\ ret.objs[k].key = in.key

\* Two Sources with Documents were merged, without selectors or stages.
C5_Witness ==
    /\ Succeeded
    /\ Len(r.inputs) = 2
    /\ Objects(1) # <<>> /\ Objects(2) # <<>>
    /\ r.opts.SourceSelectors = <<>>
    /\ RendererChain(r.opts) = <<>>
    /\ \A g \in 1..Len(r.inputs) : r.inputs[g].PostRenderers = <<>>
    /\ Len(result.objs) = Len(Objects(1)) + Len(Objects(2))

\* ---- the renderer-level chain in the steps of the last call
RendererStages ==
    LET Is(e) == e.op = "rendererStage" IN SelectSeq(trace, Is)

ChainInput ==
    LET Is(e) == e.op = "applyChain" IN SelectSeq(trace, Is)

ClassRank(class) ==
    CASE class = "filter" -> 1
      [] class = "transformer" -> 2
      [] OTHER -> 3

\* The functions of the stages of one class that ran, in the order they ran.
RanOf(class) ==
    LET Is(e) == e.class = class
        es == SelectSeq(RendererStages, Is)
    IN [k \in 1..Len(es) |-> es[k].fn]

\* The functions the caller registered with options of one type, in order.
Registered(type) ==
    LET Is(o) == o.type = type
        os == SelectSeq(callerOpts, Is)
    IN [k \in 1..Len(os) |-> os[k].fn]

IsPrefix(p, q) == Len(p) <= Len(q) /\ \A k \in 1..Len(p) : p[k] = q[k]

\* C6. Renderer-level chain order: the stages run filters first, then
\* transformers, then post-renderers, each class in its registered order
\* whatever the order of the options, each stage on the output of the one
\* before it, and a successful call returns the output of the last stage.
C6_ChainOrder ==
    Returned =>
      LET rs == RendererStages
      IN /\ \A j, k \in 1..Len(rs) :
               j < k => ClassRank(rs[j].class) <= ClassRank(rs[k].class)
         /\ IsPrefix(RanOf("filter"), r.opts.Filters)
         /\ IsPrefix(RanOf("transformer"), r.opts.Transformers)
         /\ IsPrefix(RanOf("postRenderer"), r.opts.PostRenderers)
         /\ (\A k \in 1..Len(callerOpts) : callerOpts[k].type # "RendererOptions")
               => /\ r.opts.Filters = Registered("WithFilter")
                  /\ r.opts.Transformers = Registered("WithTransformer")
                  /\ r.opts.PostRenderers = Registered("WithPostRenderer")
         /\ \A k \in 1..Len(rs) :
               rs[k].in = IF k = 1 THEN ChainInput[1].in ELSE rs[k - 1].out
         /\ Succeeded =>
               /\ Len(rs) = Len(r.opts.Filters) + Len(r.opts.Transformers)
                              + Len(r.opts.PostRenderers)
               /\ result.objs = IF rs = <<>> THEN ChainInput[1].in
                                ELSE rs[Len(rs)].out

\* A filter, a transformer and a post-renderer ran in a successful call, having
\* been registered in the opposite order.
C6_Witness ==
    /\ Succeeded
    /\ Len(callerOpts) = 3
    /\ callerOpts[1].type = "WithPostRenderer"
    /\ callerOpts[3].type = "WithFilter"
    /\ Len(RendererStages) = 3
    /\ RendererStages[1].in # <<>>

\* C7. No partial success: when a selector, a source post-renderer or a
\* renderer-level stage fails, Process returns an error and a nil slice.
C7_NoPartialSuccess ==
    Returned =>
      /\ (\E k \in 1..Len(trace) : trace[k].res = "error")
            => ret.err.kind # "none"
      /\ ret.err.kind # "none"
            => /\ ret.nil /\ ret.objs = <<>>
               /\ result.nil /\ result.objs = <<>>

\* A call failed after the Documents of the first Source had been copied,
\* fingerprinted and post-processed.
C7_Witness ==
    /\ Returned
    /\ ret.err.kind # "none"
    /\ EventsOf("copy", 1) # <<>>
    /\ EventsOf("hash", 1) # <<>>
    /\ EventsOf("merge", 1) # <<>>
    /\ \E k \in 1..Len(trace) : trace[k].res = "error" /\ trace[k].g = 2

\* ---- construction
Constructed == lastOp \in {"New", "NewEngine"}

\* The Sources the constructor got.
Given == IF lastOp = "NewEngine" THEN <<callerInputs[1]>> ELSE callerInputs

InvalidSources ==
    {g \in 1..Len(Given) :
        \E i \in 1..Len(slices[Given[g].Objects]) :
            slices[Given[g].Objects][i] = NilObject}

FirstInvalid == CHOOSE g \in InvalidSources : \A h \in InvalidSources : g <= h

\* C8. Construction validation: New returns a Renderer and no error exactly
\* when no Source holds a Document with a nil body; otherwise it returns nil and
\* an error naming the lowest invalid index, later Sources are not validated,
\* and NewEngine returns a nil engine with the error.
C8_ConstructionValidation ==
    Constructed =>
      /\ (~r.nil /\ newErr.kind = "none") <=> InvalidSources = {}
      /\ InvalidSources = {} =>
            /\ r.inputs = Given
            /\ validated = [k \in 1..Len(Given) |-> k]
      /\ InvalidSources # {} =>
            /\ r.nil /\ phase = "failed"
            /\ newErr.kind = "InvalidSource"
            /\ newErr.index = FirstInvalid - 1
            /\ validated = [k \in 1..FirstInvalid |-> k]
            /\ lastOp = "NewEngine" => engine = "nil"

\* New failed on the first of two invalid Sources.
C8_Witness ==
    /\ lastOp = "New"
    /\ Cardinality(InvalidSources) = 2
    /\ r.nil
    /\ newErr.index = 0

\* ---- options
IsStruct(o) == o.type = "RendererOptions"

\* What one option contributes to each list.
FilterPart(o) ==
    IF IsStruct(o) THEN o.val.Filters
    ELSE IF o.type = "WithFilter" THEN <<o.fn>> ELSE <<>>
TransformerPart(o) ==
    IF IsStruct(o) THEN o.val.Transformers
    ELSE IF o.type = "WithTransformer" THEN <<o.fn>> ELSE <<>>
PostRendererPart(o) ==
    IF IsStruct(o) THEN o.val.PostRenderers
    ELSE IF o.type = "WithPostRenderer" THEN <<o.fn>> ELSE <<>>
SelectorPart(o) ==
    IF IsStruct(o) THEN o.val.SourceSelectors
    ELSE IF o.type = "WithSourceSelector" THEN <<o.fn>> ELSE <<>>

Max(S) == IF S = {} THEN 0 ELSE CHOOSE k \in S : \A j \in S : j <= k

\* The last option that sets the filters (transformers), 0 when there is none.
LastFilterOption ==
    Max({k \in 1..Len(callerOpts) :
            IsStruct(callerOpts[k]) \/ callerOpts[k].type = "WithFilter"})
LastTransformerOption ==
    Max({k \in 1..Len(callerOpts) :
            IsStruct(callerOpts[k]) \/ callerOpts[k].type = "WithTransformer"})
LastStructOption ==
    Max({k \in 1..Len(callerOpts) : IsStruct(callerOpts[k])})

AccumulatedLists ==
    /\ r.opts.PostRenderers
         = Flatten([k \in 1..Len(callerOpts) |-> PostRendererPart(callerOpts[k])])
    /\ r.opts.SourceSelectors
         = Flatten([k \in 1..Len(callerOpts) |-> SelectorPart(callerOpts[k])])

\* C9 as stated. Overwrite/accumulate asymmetry: the effective filter list and
\* transformer list are each the list given by the last applied option that
\* sets them; the post-renderer and selector lists are the concatenation of the
\* contributions of all options.
C9_LastOptionWins ==
    (Constructed /\ ~r.nil) =>
      /\ r.opts.Filters
           = IF LastFilterOption = 0 THEN <<>>
             ELSE FilterPart(callerOpts[LastFilterOption])
      /\ r.opts.Transformers
           = IF LastTransformerOption = 0 THEN <<>>
             ELSE TransformerPart(callerOpts[LastTransformerOption])
      /\ AccumulatedLists

\* C9 amended. The effective filter (transformer) list is the list of the last
\* applied struct option, empty when there is none, followed by the filters
\* (transformers) of the WithFilter (WithTransformer) options applied after it;
\* the post-renderer and selector lists are the concatenation of the
\* contributions of all options.
C9_StructReplacesWithAppends ==
    (Constructed /\ ~r.nil) =>
      /\ r.opts.Filters
           = Flatten([k \in 1..Len(callerOpts) |->
                         IF k >= LastStructOption
                         THEN FilterPart(callerOpts[k]) ELSE <<>>])
      /\ r.opts.Transformers
           = Flatten([k \in 1..Len(callerOpts) |->
                         IF k >= LastStructOption
                         THEN TransformerPart(callerOpts[k]) ELSE <<>>])
      /\ AccumulatedLists

\* New applied a struct option with a filter and then a WithFilter option.
C9_Witness ==
    /\ lastOp = "New"
    /\ ~r.nil
    /\ Len(callerOpts) = 2
    /\ IsStruct(callerOpts[1])
    /\ callerOpts[2].type = "WithFilter"
    /\ Len(r.opts.Filters) = 2

\* The fields an option names.
Named(o) ==
    CASE o.type = "WithFilter" -> {"Filters"}
      [] o.type = "WithTransformer" -> {"Transformers"}
      [] o.type = "WithPostRenderer" -> {"PostRenderers"}
      [] o.type = "WithSourceSelector" -> {"SourceSelectors"}
      [] o.type = "WithSourceAnnotations" -> {"SourceAnnotations"}
      [] o.type = "WithContentHash" -> {"ContentHash"}
      [] OTHER -> {f \in DOMAIN ZeroOptions : o.val[f] # ZeroOptions[f]}

\* The options before the k-th one was applied.
OptionsBefore(k) == ApplyAll(SubSeq(callerOpts, 1, k - 1), DefaultOptions)

\* C10. Options are independently toggleable over the defaults: applying an
\* option leaves every field it does not name at its previous value; content
\* fingerprinting stays enabled and provenance annotation disabled unless an
\* applied option names that toggle.
C10_IndependentOptions ==
    (Constructed /\ ~r.nil) =>
      /\ \A k \in 1..Len(callerOpts) :
            \A f \in (DOMAIN ZeroOptions) \ Named(callerOpts[k]) :
                ApplyTo(callerOpts[k], OptionsBefore(k))[f] = OptionsBefore(k)[f]
      /\ (\A k \in 1..Len(callerOpts) : "ContentHash" \notin Named(callerOpts[k]))
            => r.opts.ContentHash
      /\ (\A k \in 1..Len(callerOpts) : "SourceAnnotations" \notin Named(callerOpts[k]))
            => ~r.opts.SourceAnnotations

\* ---- annotations
\* The annotations of the k-th returned Document and of the stored Document it
\* is a copy of.
RetAnn(k) == ret.objs[k].ann
SrcAnn(k) == heap[SrcOf(result.objs[k])].ann

\* C11 as stated. Provenance annotation toggle: with provenance annotation
\* disabled no returned Document has the source-type key; with it enabled
\* every returned Document has source-type = "mem"; no returned Document has a
\* source-path or source-file key that its stored Document does not have.
C11_ProvenanceToggle ==
    Succeeded =>
      \A k \in 1..Len(ret.objs) :
         /\ ~r.opts.SourceAnnotations
               => AnnotationSourceType \notin DOMAIN RetAnn(k)
         /\ r.opts.SourceAnnotations
               => /\ AnnotationSourceType \in DOMAIN RetAnn(k)
                  /\ RetAnn(k)[AnnotationSourceType] = rendererType
         /\ \A key \in {AnnotationSourcePath, AnnotationSourceFile} :
               key \in DOMAIN RetAnn(k) => key \in DOMAIN SrcAnn(k)

\* C11 amended. With provenance annotation disabled Process adds no
\* source-type key: a returned Document has the key exactly when the stored
\* Document it was copied from has it, with the same value. With it enabled
\* every returned Document has source-type = "mem", whatever the stored
\* Document carried. Process never adds a source-path or source-file key.
C11_ProvenanceAdded ==
    Succeeded =>
      \A k \in 1..Len(ret.objs) :
         /\ ~r.opts.SourceAnnotations
               => /\ AnnotationSourceType \in DOMAIN RetAnn(k)
                        <=> AnnotationSourceType \in DOMAIN SrcAnn(k)
                  /\ AnnotationSourceType \in DOMAIN RetAnn(k)
                        => RetAnn(k)[AnnotationSourceType]
                             = SrcAnn(k)[AnnotationSourceType]
         /\ r.opts.SourceAnnotations
               => /\ AnnotationSourceType \in DOMAIN RetAnn(k)
                  /\ RetAnn(k)[AnnotationSourceType] = rendererType
         /\ \A key \in {AnnotationSourcePath, AnnotationSourceFile} :
               /\ key \in DOMAIN RetAnn(k) <=> key \in DOMAIN SrcAnn(k)
               /\ key \in DOMAIN RetAnn(k) => RetAnn(k)[key] = SrcAnn(k)[key]

\* With provenance annotation enabled, a call returned the copy of a Document
\* that was stored with the source-type of another renderer, and the copy of
\* one that was stored without.
C11_Witness ==
    /\ Succeeded
    /\ r.opts.SourceAnnotations
    /\ \E k \in 1..Len(ret.objs) :
          /\ AnnotationSourceType \in DOMAIN SrcAnn(k)
          /\ SrcAnn(k)[AnnotationSourceType] # rendererType
    /\ \E k \in 1..Len(ret.objs) :
          AnnotationSourceType \notin DOMAIN SrcAnn(k)

\* The position in the trace of the first step for Source g that comes after
\* the annotate/fingerprint step (a source post-renderer or the merge), and
\* the length of the trace plus one when there is none.
LeavesAt(g) ==
    LET after == {k \in 1..Len(trace) :
                     /\ trace[k].g = g
                     /\ trace[k].op \in {"sourceStage", "merge"}}
    IN IF after = {} THEN Len(trace) + 1
       ELSE CHOOSE k \in after : \A j \in after : k <= j

\* Copy c of Source g got its digest before the Source left the step.
HashedInStep(g, c) ==
    \E k \in 1..(LeavesAt(g) - 1) :
        /\ trace[k].op = "hash"
        /\ trace[k].g = g
        /\ trace[k].in = <<c>>
        /\ AnnotationContentHash \in DOMAIN heap[c].ann

Copies(g) == {e.out[1] : e \in Range(EventsOf("copy", g))}

\* C12 as stated. Content-fingerprint toggle: with fingerprinting disabled no
\* returned Document has the digest key; with it enabled every Document of
\* every accepted Source carries a digest key when it leaves the per-source
\* annotate/fingerprint step.
C12_FingerprintToggle ==
    Returned =>
      /\ (Succeeded /\ ~r.opts.ContentHash)
            => \A k \in 1..Len(ret.objs) :
                  AnnotationContentHash \notin DOMAIN RetAnn(k)
      /\ r.opts.ContentHash
            => \A g \in 1..Len(r.inputs) :
                  \A c \in Copies(g) : HashedInStep(g, c)

\* C12 amended. With fingerprinting disabled Process computes no digest and
\* adds no digest key: a returned Document has the key exactly when the stored
\* Document it was copied from has it, with the same value. With it enabled
\* every Document of every accepted Source carries a digest key when it leaves
\* the per-source annotate/fingerprint step.
C12_FingerprintAdded ==
    Returned =>
      /\ ~r.opts.ContentHash
            => \A k \in 1..Len(trace) : trace[k].op # "hash"
      /\ (Succeeded /\ ~r.opts.ContentHash)
            => \A k \in 1..Len(ret.objs) :
                  /\ AnnotationContentHash \in DOMAIN RetAnn(k)
                        <=> AnnotationContentHash \in DOMAIN SrcAnn(k)
                  /\ AnnotationContentHash \in DOMAIN RetAnn(k)
                        => RetAnn(k)[AnnotationContentHash]
                             = SrcAnn(k)[AnnotationContentHash]
      /\ r.opts.ContentHash
            => \A g \in 1..Len(r.inputs) :
                  /\ (Succeeded /\ Accepted(g))
                        => Len(EventsOf("copy", g)) = Len(Objects(g))
                  /\ \A c \in Copies(g) : HashedInStep(g, c)

\* With fingerprinting enabled, the second of two Sources was copied and had a
\* source post-renderer, and one of its Documents had no annotations when
\* stored.
C12_Witness ==
    /\ Returned
    /\ r.opts.ContentHash
    /\ Len(r.inputs) = 2
    /\ Cardinality(Copies(2)) = 2
    /\ EventsOf("sourceStage", 2) # <<>>
    /\ \E a \in Range(Objects(2)) : heap[a].ann = EmptyAnn

\* ---- empty input
\* Some selector rejects Source g and no selector before it fails or rejects.
Rejected(g) ==
    \E k \in 1..Len(r.opts.SourceSelectors) :
        /\ LET s == RunSelector(r.opts.SourceSelectors[k], heap, Objects(g))
           IN ~s.failed /\ ~s.ok
        /\ \A j \in 1..(k - 1) :
              LET s == RunSelector(r.opts.SourceSelectors[j], heap, Objects(g))
              IN ~s.failed /\ s.ok

\* No Source, or no Source with an Object, or no Source that is accepted.
EmptyInput ==
    \/ r.inputs = <<>>
    \/ \A g \in 1..Len(r.inputs) : Objects(g) = <<>>
    \/ \A g \in 1..Len(r.inputs) : Rejected(g)

SomeStepFailed == \E k \in 1..Len(trace) : trace[k].res = "error"

Alone == RetOf(ProcessCall(r, Kept(atNew.heap), atNew.slices))

Done(t) == inflight[t].pc = "done"

\* C15. Concurrent Process calls are safe: in every interleaving of the calls
\* of several goroutines on one Renderer, the configuration, the stored
\* Sources and the stored Documents stay as New left them, the results of two
\* calls share no Document, and every call returns what a call returns that
\* runs alone.
C15_ConcurrentCallsSafe ==
    /\ r = NewCall(callerInputs, callerOpts, atNew.slices).r
    /\ slices = atNew.slices
    /\ Kept(heap) = Kept(atNew.heap)
    /\ \A t \in Callers :
          Done(t) =>
            /\ inflight[t].ret = Alone
            /\ inflight[t].ret
                 = [nil |-> inflight[t].nil,
                    objs |-> Resolve(heap, inflight[t].objs),
                    err |-> inflight[t].ret.err]
    /\ \A t, u \in Callers :
          (t # u /\ Done(t) /\ Done(u))
            => Range(inflight[t].objs) \cap Range(inflight[u].objs) = {}

\* A call ran from its start to its return with Documents while another call
\* was in the middle of the renderer-level chain, a stage of which had written
\* to the Documents of that call.
C15_Witness ==
    /\ Done(2)
    /\ inflight[2].objs # <<>>
    /\ inflight[1].pc = "chain"
    /\ inflight[1].i > 1
    /\ \E a \in Range(inflight[1].allObjects) : heap[a].gen > 1
    /\ \E a \in Range(inflight[2].objs) : heap[a].gen > 1

\* ---- failed calls
\* C16. A failed render does not poison the instance: a Process call that
\* returns an error leaves the configuration, the stored Sources and the
\* stored Documents as they were, and a Process call after a failed one, in
\* which no selector and no stage fails, returns what the first call on the
\* renderer as New left it returns in the same outside state.
C16_FailureDoesNotPoison ==
    [][calls' = calls + 1 =>
          /\ ret'.err.kind # "none"
                => /\ r' = r
                   /\ slices' = slices
                   /\ Kept(heap') = Kept(heap)
                   /\ Stored(r', heap', slices') = Stored(r, heap, slices)
          /\ (calls >= 1 /\ ret.err.kind # "none" /\ ret'.err.kind = "none")
                => ret' = RetOf(ProcessCall(r, Kept(atNew.heap), atNew.slices))]_vars

\* A call failed in the renderer-level chain during the outage, after stages
\* had written to its copies; the outage ended and the next call returned
\* Documents.
C16_Witness ==
    /\ Succeeded
    /\ calls = 2
    /\ prevRet.err.kind = "RenderPostRenderError"
    /\ prevRet.err.stage > 1
    /\ ret.objs # <<>>
    /\ \E k \in 1..Len(ret.objs) : ret.objs[k].gen > 1

\* ---- render-time values
\* C17. Render-time values are ignored: whatever values a Process call gets,
\* nil included, it returns what it returns for any other values; the result
\* depends only on the configuration and the stored Sources.
C17_ValuesIgnored ==
    [][calls' = calls + 1 =>
          \A v \in RenderValues :
              /\ ret' = RetOf(ProcessValues(r, Kept(heap), slices, v))
              /\ ret' = RetOf(ProcessCall(r, Kept(heap), slices))]_vars

\* A call with nil values and then a call with a non-empty values map
\* returned the same Documents.
C17_Witness ==
    /\ Succeeded
    /\ calls = 2
    /\ values = "set"
    /\ ret.objs # <<>>
    /\ ret = prevRet

\* ---- errors
\* A step with operation op returned an error in the last call.
FailedIn(op) ==
    \E k \in 1..Len(trace) : trace[k].op = op /\ trace[k].res = "error"

\* C18. The error kind matches the class of the step that failed: Process
\* fails with SourceSelectorError exactly when a source selector returned an
\* error, with SourcePostRenderError exactly when a post-renderer of a Source
\* failed, with RenderPostRenderError exactly when a stage of the
\* renderer-level chain failed, and never with InvalidSource.
C18_ErrorKindMatchesStep ==
    Returned =>
      /\ ret.err.kind = "SourceSelectorError" <=> FailedIn("select")
      /\ ret.err.kind = "SourcePostRenderError" <=> FailedIn("sourceStage")
      /\ ret.err.kind = "RenderPostRenderError" <=> FailedIn("rendererStage")
      /\ ret.err.kind = "none" <=> ~SomeStepFailed
      /\ ret.err.kind # "InvalidSource"
      /\ \A k \in 1..Len(trace) :
            trace[k].res = "error"
              => trace[k].op \in {"select", "sourceStage", "rendererStage"}

\* The post-renderer of the second Source failed after the first Source had
\* been merged, in a renderer that also has renderer-level stages.
C18_Witness ==
    /\ Returned
    /\ ret.err.kind = "SourcePostRenderError"
    /\ EventsOf("merge", 1) # <<>>
    /\ FailedIn("sourceStage")
    /\ RendererChain(r.opts) # <<>>

\* The Source whose post-renderer failed in the last call.
FailedSource ==
    (CHOOSE e \in Range(trace) : e.op = "sourceStage" /\ e.res = "error").g

\* The error Process returns when the post-renderers of Source g fail at the
\* stage at which they failed in the last call.
SourceStageError(g) ==
    SourceProcessed(r, slices, g, <<>>, FreshBase,
                    [heap |-> heap, objs |-> <<>>, failed |-> ret.err.stage,
                     trace |-> <<>>]).err

\* C19. Error context identifies the origin: when a post-renderer of Source i
\* fails, the error Process returns names the stage and the index i, so the
\* same stage failing in another Source gives a different error.
C19_ErrorNamesSource ==
    (Returned /\ ret.err.kind = "SourcePostRenderError") =>
      /\ ret.err.stage # 0
      /\ ret.err = SourceStageError(FailedSource)
      /\ \A g \in 1..Len(r.inputs) :
            g # FailedSource => SourceStageError(g) # ret.err

\* ---- abort on failure
\* C20. The first failure aborts the call: the step that returned an error is
\* the last step of the call; after a failure in Source i no selector is
\* evaluated for a later Source and the renderer-level chain is not started,
\* and a failed stage of a chain is the last stage of that chain that ran.
C20_FirstFailureAborts ==
    Returned =>
      \A k \in 1..Len(trace) :
         trace[k].res = "error" =>
           /\ k = Len(trace)
           /\ trace[k].op \in {"select", "sourceStage"} =>
                 /\ \A j \in 1..Len(trace) : trace[j].g <= trace[k].g
                 /\ \A j \in 1..Len(trace) :
                       trace[j].op \notin {"applyChain", "rendererStage"}
                 /\ \A g \in 1..Len(r.inputs) :
                       g > trace[k].g => ~Included(g) /\ EventsOf("select", g) = <<>>
                 /\ EventsOf("merge", trace[k].g) = <<>>
           /\ trace[k].op = "select" => ~Included(trace[k].g)
           /\ trace[k].op = "rendererStage" =>
                 Len(RendererStages) = trace[k].i

\* The post-renderer of the first of two Sources failed, in a renderer with
\* a renderer-level chain.
C20_Witness ==
    /\ Returned
    /\ Len(r.inputs) = 2
    /\ FailedIn("sourceStage")
    /\ FailedSource = 1
    /\ slices[r.inputs[2].Objects] # <<>>
    /\ RendererChain(r.opts) # <<>>

\* ---- rejected Sources
\* C21. A rejected Source gets no per-source work: when a selector rejects
\* Source g, the selectors after it are not evaluated for g, no Document of g
\* is copied, annotated or fingerprinted and no post-renderer of g runs, and
\* the next step of the call is the first selector of Source g + 1, or the
\* renderer-level chain when g is the last Source.
C21_RejectedSourceSkipped ==
    Returned =>
      \A k \in 1..Len(trace) :
         (trace[k].op = "select" /\ trace[k].res = "reject") =>
           /\ \A j \in 1..Len(trace) :
                 trace[j].g = trace[k].g
                   => trace[j].op = "select" /\ j <= k
           /\ k < Len(trace)
           /\ IF trace[k].g < Len(r.inputs)
              THEN /\ trace[k + 1].op = "select"
                   /\ trace[k + 1].g = trace[k].g + 1
                   /\ trace[k + 1].i = 1
              ELSE trace[k + 1].op = "applyChain"

\* The first Source, which has Documents and a post-renderer, was rejected,
\* and the call went on with the selectors of the second Source.
C21_Witness ==
    /\ Returned
    /\ Len(r.inputs) = 2
    /\ Objects(1) # <<>>
    /\ r.inputs[1].PostRenderers # <<>>
    /\ \E k \in 1..Len(trace) :
          trace[k].op = "select" /\ trace[k].g = 1 /\ trace[k].res = "reject"
    /\ EventsOf("select", 2) # <<>>

\* ---- order of the per-source steps
\* The place of a step in the work for one Source.
StepRank(op) ==
    CASE op = "select" -> 0
      [] op \in {"copy", "annotate"} -> 1
      [] op = "hash" -> 2
      [] op = "sourceStage" -> 3
      [] op = "merge" -> 4
      [] OTHER -> 5

\* The steps of the last call for Source g, in the order they happened.
StepsOf(g) == LET Is(e) == e.g = g IN SelectSeq(trace, Is)

\* The copies of Source g in the order they were made.
CopiesInOrder(g) ==
    [k \in 1..Len(EventsOf("copy", g)) |-> EventsOf("copy", g)[k].out[1]]

\* The copy as it is when it leaves the annotate/fingerprint step.
Fingerprinted(doc) ==
    LET a == IF r.opts.SourceAnnotations THEN AnnotateSource(doc) ELSE doc
    IN IF r.opts.ContentHash THEN SetContentHash(a) ELSE a

\* C22. Fixed per-source order: for every accepted Source the call copies and
\* annotates each Document, then sets the digests, then runs the post-renderers
\* of the Source on the copies of that Source only, each on the output of the
\* one before, then merges. Every copy gets its digest once, before any stage,
\* and a returned Document carries the digest of the annotated copy, also
\* when a stage has changed the Document since.
C22_PerSourceOrder ==
    Returned =>
      /\ \A g \in 1..Len(r.inputs) :
            LET steps == StepsOf(g)
                stages == EventsOf("sourceStage", g)
                copies == CopiesInOrder(g)
            IN /\ \A j, k \in 1..Len(steps) :
                     j < k => StepRank(steps[j].op) <= StepRank(steps[k].op)
               /\ \A k \in 1..Len(steps) :
                     steps[k].op = "annotate"
                       => /\ r.opts.SourceAnnotations
                          /\ k > 1
                          /\ steps[k - 1].op = "copy"
                          /\ steps[k - 1].out = steps[k].in
               /\ \A k \in 1..Len(steps) :
                     (steps[k].op = "copy" /\ r.opts.SourceAnnotations)
                       => /\ k < Len(steps)
                          /\ steps[k + 1].op = "annotate"
               /\ EventsOf("hash", g)
                    = IF r.opts.ContentHash
                      THEN [k \in 1..Len(copies) |->
                               Ev("hash", g, k, "", "", "ok",
                                  <<copies[k]>>, <<copies[k]>>)]
                      ELSE <<>>
               /\ \A k \in 1..Len(stages) :
                     /\ stages[k].i = k
                     /\ stages[k].fn = r.inputs[g].PostRenderers[k]
                     /\ stages[k].in = IF k = 1 THEN copies
                                       ELSE stages[k - 1].out
                     /\ Range(stages[k].in) \subseteq Copies(g)
               /\ \A k \in 1..Len(EventsOf("merge", g)) :
                     /\ Len(stages) = Len(r.inputs[g].PostRenderers)
                     /\ EventsOf("merge", g)[k].in = SourceOut(g)
      /\ \A k \in 1..Len(trace) :
            trace[k].op = "hash" =>
              \A j \in 1..k : trace[j].op # "rendererStage"
      /\ (Succeeded /\ r.opts.ContentHash) =>
            \A k \in 1..Len(ret.objs) :
               RetAnn(k)[AnnotationContentHash]
                 = Fingerprinted(heap[SrcOf(result.objs[k])])
                     .ann[AnnotationContentHash]

\* With annotation and digests enabled, a Source of two Documents was copied,
\* its post-renderer changed the copies, and the returned Documents carry the
\* digest of the content before the change.
C22_Witness ==
    /\ Succeeded
    /\ r.opts.SourceAnnotations
    /\ r.opts.ContentHash
    /\ Len(EventsOf("copy", 1)) = 2
    /\ Len(EventsOf("annotate", 1)) = 2
    /\ EventsOf("sourceStage", 1) # <<>>
    /\ EventsOf("sourceStage", 1)[1].fn = "bump"
    /\ \E k \in 1..Len(ret.objs) :
          /\ ret.objs[k].gen > 0
          /\ RetAnn(k)[AnnotationContentHash]
               # ContentHash(ret.objs[k])

\* ---- frame of the annotation step
\* C23. Provenance annotation preserves other metadata: with annotation
\* enabled, the annotations of every returned Document are the annotations of
\* the stored Document with source-type set to "mem" (added, or overwritten),
\* and besides that only the digest key, which the digest step writes when it
\* is enabled; the mapping is created when the stored Document has none; the
\* rest of the Document is as stored when no stage ran.
C23_AnnotationFrame ==
    (Succeeded /\ r.opts.SourceAnnotations) =>
      \A k \in 1..Len(ret.objs) :
         /\ MapDel(RetAnn(k), AnnotationContentHash)
              = MapDel(MapPut(SrcAnn(k), AnnotationSourceType, rendererType),
                       AnnotationContentHash)
         /\ ~r.opts.ContentHash
               => RetAnn(k) = MapPut(SrcAnn(k), AnnotationSourceType,
                                     rendererType)
         /\ r.opts.ContentHash
               => AnnotationContentHash \in DOMAIN RetAnn(k)
         /\ \A e \in Range(trace) :
               e.op = "annotate" =>
                 heap[e.in[1]].ann[AnnotationSourceType] = rendererType
         /\ (\A e \in Range(trace) : e.op \notin {"sourceStage", "rendererStage"})
               => [ret.objs[k] EXCEPT !.ann = EmptyAnn]
                    = [heap[SrcOf(result.objs[k])] EXCEPT !.ann = EmptyAnn]

\* With annotation enabled a call returned the copy of a Document stored with an
\* annotation of its own and the copy of a Document stored without
\* annotations.
C23_Witness ==
    /\ Succeeded
    /\ r.opts.SourceAnnotations
    /\ \E k \in 1..Len(ret.objs) :
          /\ "user" \in DOMAIN SrcAnn(k)
          /\ "user" \in DOMAIN RetAnn(k)
    /\ \E k \in 1..Len(ret.objs) : SrcAnn(k) = EmptyAnn

\* ---- validation
\* C24. Validation happens only at construction: New validates the Sources in
\* ascending index, each at most once, and every Source of a Renderer exactly
\* once; a Process call validates nothing, whatever the caller did to its
\* Documents since, and never fails with InvalidSource.
C24_ValidationOnlyInNew ==
    /\ validated = [k \in 1..Len(validated) |-> k]
    /\ phase = "start" => validated = <<>>
    /\ phase = "ready" => validated = [k \in 1..Len(r.inputs) |-> k]
    /\ calls > 0 =>
          /\ phase = "ready"
          /\ newErr.kind = "none"
          /\ ret.err.kind # "InvalidSource"
          /\ \A k \in 1..Len(trace) :
                trace[k].op \in {"select", "copy", "annotate", "hash",
                                 "sourceStage", "merge", "applyChain",
                                 "rendererStage"}

\* Two Process calls have run on a Renderer with two Sources, the caller having
\* replaced a stored Document in between, and each Source is still validated
\* once.
C24_Witness ==
    /\ Returned
    /\ calls = 2
    /\ changed
    /\ validated = <<1, 2>>
    /\ trace # <<>>

\* ---- the two variants of Process
\* The Renderer has no selector and no post-renderer, of a Source or of its
\* own.
Plain ==
    /\ r.opts.SourceSelectors = <<>>
    /\ r.opts.PostRenderers = <<>>
    /\ \A g \in 1..Len(r.inputs) : r.inputs[g].PostRenderers = <<>>

\* What the simpler Process returns on the stored Documents.
SimpleRet == RetOf(SimpleProcessCall(r, Kept(heap), slices))

\* C25. The richer Process refines the simpler one: on a Renderer with no
\* source selector, no source post-renderer and no renderer-level
\* post-renderer both return the same Documents in the same order, with the
\* same annotations and digests, and both succeed or both fail with a nil
\* slice.
C25_RicherRefinesSimpler ==
    (Returned /\ Plain) =>
      /\ ret.objs = SimpleRet.objs
      /\ ret.nil = SimpleRet.nil
      /\ ret.err.kind = "none" <=> SimpleRet.err.kind = "none"

\* A Renderer with two Sources, a filter and a transformer returned Documents
\* with digests, one of them stored with the annotations of another renderer.
C25_Witness ==
    /\ Succeeded
    /\ Plain
    /\ Len(r.inputs) = 2
    /\ r.opts.Filters # <<>>
    /\ r.opts.Transformers # <<>>
    /\ r.opts.ContentHash
    /\ Len(ret.objs) = 2
    /\ ret.objs[1].name # ret.objs[2].name

====
